---- MODULE Spec2Model ----
(***************************************************************************)
(* Memecraft frontend: the canvas editor's undo/redo history               *)
(* (MemeCanvasEditor), the route guards of App, the shared api client and  *)
(* the page handlers that call it, the editor page's save/load flow and    *)
(* text tools and Layers sidebar, the GIF creator, the notifications panel  *)
(* and My Memes.                                                           *)
(***************************************************************************)
EXTENDS Integers, Sequences, FiniteSets, TLC

(***************************************************************************)
(* Bounds of the model.                                                    *)
(***************************************************************************)
\* objects the user puts on the canvas at one time
MaxObjects == 2
\* user operations other than dragging the selected object
MaxOps == 6
\* structural operations happen while the history is at most this long, or full
EarlyLen == 3
\* snapshots dropped from the front of a full history
MaxShifts == 2
\* distinct values of the property a drag changes
NumRevs == 2
\* redirects followed after one URL entry before the model stops following them
MaxRedirects == 4
\* requests in flight at one time
MaxInFlight == 2

(***************************************************************************)
(* Program constants.                                                      *)
(***************************************************************************)
\* saveState: if (this.history.length > 50)
MaxHistory == 50
\* README: "Undo/Redo functionality (50-step history)"
DocumentedSteps == 50
\* Editor: useState(48) of fontSize
InitialFontSize == 48

VARIABLES
    objects,        \* canvas._objects, bottom to top: sequence of property records
    activeObject,   \* canvas.getActiveObject(): index into objects, 0 = none
    history,        \* MemeCanvasEditor.history: sequence of JSON snapshots
    historyStep,    \* MemeCanvasEditor.historyStep (JS index, -1 = empty)
    ops,            \* user operations spent (model bound)
    shifts,         \* snapshots dropped so far (model bound)
    recorded,       \* saveState calls since the last undo, capped
    lastOp,         \* the last operation: "none", "save", "select", "undo", "redo"
    undoFrom        \* editor state just before the last undo, while only undo/redo followed

histVars == <<objects, activeObject, history, historyStep, ops, shifts, recorded,
              lastOp, undoFrom>>

VARIABLES
    location,        \* the router's current location: [path, search]
    loading,         \* useAuth().loading
    isAuthenticated, \* useAuth().isAuthenticated
    screen,          \* what <Routes> rendered for the current location and auth state
    redirects,       \* <Navigate> redirects since the last navigation or auth change
    entered          \* the path of the last navigation that was not a redirect

routeVars == <<location, loading, isAuthenticated, screen, redirects, entered>>

VARIABLES
    token,           \* localStorage 'token', "null" when absent
    inflight,        \* requests sent through api and not yet answered, in sending order
    lastStep         \* what the last step of a handler did: invoked, got an answer

apiVars == <<token, inflight, lastStep>>

VARIABLES
    saving,          \* Editor's saving state
    serverMemes,     \* ids of the memes the server stores
    opening,         \* the mounted Editor: the id it was opened with, its creates, failed saves
    intent           \* what the user chose to open the editor with

pageVars == <<saving, serverMemes, opening, intent>>

VARIABLES
    aiGeneratedImage \* sessionStorage 'aiGeneratedImage', "null" when absent

sessionVars == <<aiGeneratedImage>>

VARIABLES
    gifEditor,         \* GifCreator's editor state is set (the mount effect has run)
    frameObj,          \* the frame objects ever created, in creation order; a frame is
                       \* referred to by its position here (the identity of the object)
    frames,            \* GifCreator's frames state: the timeline, a sequence of frame references
    currentFrameIndex, \* GifCreator's currentFrameIndex state (JS index)
    isPlaying,         \* GifCreator's isPlaying state
    exporting,         \* GifCreator's exporting state
    gifCanvas,         \* the frame whose canvasData the canvas shows, 0 = the new canvas
    playback,          \* handlePlay's closure and playIntervalRef: frames, index, armed timer
    exportJob,         \* the running handleExportGIF: its frames and the frame it waits for
    encoder,           \* the GIF encoder: frames added, whether render() was called
    gifToast,          \* the last toast of the GIF creator
    gifOps,            \* timeline operations spent (model bound)
    lastGif            \* the last step of the GIF creator

gifVars == <<gifEditor, frameObj, frames, currentFrameIndex, isPlaying, exporting,
             gifCanvas, playback, exportJob, encoder, gifToast, gifOps, lastGif>>

VARIABLES
    notifications,   \* NotificationsPanel's notifications state: sequence of [id, is_read]
    unreadCount,     \* NotificationsPanel's unreadCount state
    notifLoading,    \* NotificationsPanel's loading state
    serverRead,      \* ids of the notifications the server holds as read
    listCalls,       \* notificationAPI.list requests not yet answered
    markCalls,       \* notificationAPI.markRead requests not yet answered, each with
                     \* the notifications and unreadCount its handler closed over
    marked,          \* ids whose markRead succeeded since the list was last loaded
    loadedUnread,    \* unreadCount as the last loaded list set it
    notifBudget,     \* clicks and reloads spent (model bound)
    lastNotif        \* the last step of the panel

notifVars == <<notifications, unreadCount, notifLoading, serverRead, listCalls,
               markCalls, marked, loadedUnread, notifBudget, lastNotif>>

VARIABLES
    memes,           \* MyMemes' memes state: sequence of meme ids
    memesLoading,    \* MyMemes' loading state
    memeListCalls,   \* memeAPI.list requests not yet answered, each with the ids the
                     \* server held when it was sent
    deleteCalls,     \* memeAPI.delete requests not yet answered, each with the memes
                     \* its handler closed over
    duplicateCalls,  \* memeAPI.duplicate requests not yet answered
    deleted,         \* ids whose delete request succeeded
    lastMemes        \* the last step of the My Memes page

listVars == <<memes, memesLoading, memeListCalls, deleteCalls, duplicateCalls,
              deleted, lastMemes>>

VARIABLES
    fontSize,        \* Editor's fontSize state
    textColor,       \* Editor's textColor state
    strokeColor,     \* Editor's strokeColor state
    fontFamily,      \* Editor's fontFamily state
    texts,           \* the i-text objects on the canvas: their style properties
    activeText,      \* the selected text object (canvas and Editor's activeObject), 0 = none
    styleOps,        \* user actions on the text tools spent (model bound)
    lastChange       \* the control changed by the last step and the value chosen

styleVars == <<fontSize, textColor, strokeColor, fontFamily, texts, activeText,
               styleOps, lastChange>>

VARIABLES
    layers,          \* canvas.getObjects() of the Editor's canvas, bottom to top
    layerActive,     \* canvas.getActiveObject(): the object's id, 0 = none
    canvasObjects,   \* Editor's canvasObjects state, the list the Layers sidebar shows
    layerHistory,    \* MemeCanvasEditor.history of that editor
    layerStep,       \* MemeCanvasEditor.historyStep of that editor
    created,         \* fabric objects constructed so far (identities handed out)
    uploading,       \* uploadAPI.image calls of handleImageUpload in flight
    pendingMeme,     \* canvas_data that loadMeme's memeAPI.get will answer, or NoMeme
    layerOps,        \* user operations on the editor page spent (model bound)
    lastLayerOp      \* the last step of the editor page

layerVars == <<layers, layerActive, canvasObjects, layerHistory, layerStep, created,
               uploading, pendingMeme, layerOps, lastLayerOp>>

\* the state of the pages other than the one an action belongs to
otherVars == <<sessionVars, gifVars, notifVars, listVars, styleVars, layerVars>>

vars == <<histVars, routeVars, apiVars, pageVars, otherVars>>

Min(a, b) == IF a < b THEN a ELSE b
Max(a, b) == IF a > b THEN a ELSE b

(***************************************************************************)
(* MemeCanvasEditor                                                        *)
(***************************************************************************)
\* a fabric.IText as addText creates it
NewText == [type |-> "i-text", rev |-> 0, src |-> "none"]

\* the canvas background the constructor sets; no operation of the model changes it
Background == "#ffffff"

\* canvas.toJSON(): the objects' properties in stacking order and the
\* background; the selection is not serialised
toJSON(objs) == [objects |-> objs, background |-> Background]

\* the editor's history fields
Editor == [history |-> history, historyStep |-> historyStep]

\* saveState() that never drops the oldest snapshot
saveState_NoShift(ed, json) ==
    LET cut    == IF ed.historyStep < Len(ed.history) - 1
                  THEN SubSeq(ed.history, 1, ed.historyStep + 1)
                  ELSE ed.history
        pushed == Append(cut, json)
    IN  [history |-> pushed, historyStep |-> Len(pushed) - 1]

\* saveState() with the canvas serialised as json
saveState(ed, json) ==
    LET cut    == IF ed.historyStep < Len(ed.history) - 1
                  THEN SubSeq(ed.history, 1, ed.historyStep + 1)
                  ELSE ed.history
        pushed == Append(cut, json)
    IN  IF Len(pushed) > MaxHistory
        THEN [history |-> Tail(pushed), historyStep |-> (Len(pushed) - 1) - 1]
        ELSE [history |-> pushed, historyStep |-> Len(pushed) - 1]

\* the object:added / object:modified / object:removed listeners, run once for
\* each canvas state in states (one event each), in order
RECURSIVE fire(_, _)
fire(ed, states) ==
    IF states = <<>> THEN ed
    ELSE fire(saveState(ed, toJSON(Head(states))), Tail(states))

\* the canvas states at which canvas.loadFromJSON(json) fires events when the
\* canvas holds objs: fabric's clear() removes the objects one by one from the
\* bottom (object:removed after each), then the objects of json are inserted
\* one by one (object:added after each)
loadEvents(objs, json) ==
    [i \in 1..Len(objs) |-> SubSeq(objs, i + 1, Len(objs))]
        \o [j \in 1..Len(json.objects) |-> SubSeq(json.objects, 1, j)]

\* loadFromJSON(json): the editor's history fields after the load
loadFromJSON(ed, objs, json) == fire(ed, loadEvents(objs, json))

canUndo == historyStep > 0
canRedo == historyStep < Len(history) - 1

\* snapshots that k saveState calls starting from ed drop from the front
Dropped(ed, k) ==
    IF k = 0 THEN 0 ELSE Max(0, (ed.historyStep + 1) + k - MaxHistory)

\* operations other than drags are explored while the history is short or full
Attended == Len(history) <= EarlyLen \/ Len(history) = MaxHistory

\* no undo to compare with
NoUndo == [step |-> -2, history |-> <<>>, json |-> toJSON(<<>>)]

\* the history fields become ed after k saveState calls
Saved(ed, k) ==
    /\ history' = ed.history
    /\ historyStep' = ed.historyStep
    /\ shifts' = shifts + Dropped(Editor, k)
    /\ recorded' = Min(recorded + k, MaxHistory + 1)
    /\ lastOp' = "save"
    /\ undoFrom' = NoUndo

\* addText(): canvas.add fires object:added, then the new text is selected
addText ==
    /\ UNCHANGED <<routeVars, apiVars, pageVars, otherVars>>
    /\ Attended /\ ops < MaxOps /\ shifts < MaxShifts
    /\ Len(objects) < MaxObjects
    /\ objects' = Append(objects, NewText)
    /\ activeObject' = Len(objects) + 1
    /\ Saved(saveState(Editor, toJSON(objects')), 1)
    /\ ops' = ops + 1

\* the user clicks object i: canvas.setActiveObject, no history event
selectObject(i) ==
    /\ UNCHANGED <<routeVars, apiVars, pageVars, otherVars>>
    /\ Attended /\ ops < MaxOps
    /\ i \in 1..Len(objects) /\ i # activeObject
    /\ activeObject' = i
    /\ lastOp' = "select"
    /\ ops' = ops + 1
    /\ UNCHANGED <<objects, history, historyStep, shifts, recorded, undoFrom>>

\* the user drags or resizes the selected object: fabric fires object:modified
objectModified ==
    /\ UNCHANGED <<routeVars, apiVars, pageVars, otherVars>>
    /\ activeObject # 0 /\ shifts < MaxShifts
    /\ objects' = [objects EXCEPT ![activeObject].rev = (@ + 1) % NumRevs]
    /\ Saved(saveState(Editor, toJSON(objects')), 1)
    /\ UNCHANGED <<activeObject, ops>>

\* deleteActiveLayer(): canvas.remove fires object:removed
deleteActiveLayer ==
    /\ UNCHANGED <<routeVars, apiVars, pageVars, otherVars>>
    /\ Attended /\ ops < MaxOps /\ shifts < MaxShifts
    /\ activeObject # 0
    /\ objects' = [i \in 1..(Len(objects) - 1) |->
                     IF i < activeObject THEN objects[i] ELSE objects[i + 1]]
    /\ activeObject' = 0
    /\ Saved(saveState(Editor, toJSON(objects')), 1)
    /\ ops' = ops + 1

\* undo(): step back and reload that snapshot into the same canvas
undo ==
    /\ UNCHANGED <<routeVars, apiVars, pageVars, otherVars>>
    /\ Attended /\ ops < MaxOps /\ shifts < MaxShifts
    /\ historyStep > 0
    /\ LET json == history[(historyStep - 1) + 1]
           ed   == [history |-> history, historyStep |-> historyStep - 1]
           k    == Len(loadEvents(objects, json))
           res  == loadFromJSON(ed, objects, json)
       IN  /\ objects' = json.objects
           /\ activeObject' = 0
           /\ history' = res.history
           /\ historyStep' = res.historyStep
           /\ shifts' = shifts + Dropped(ed, k)
           /\ recorded' = 0
           /\ lastOp' = "undo"
           /\ undoFrom' = [step |-> historyStep, history |-> history,
                           json |-> toJSON(objects)]
    /\ ops' = ops + 1

\* redo(): step forward and reload that snapshot into the same canvas
redo ==
    /\ UNCHANGED <<routeVars, apiVars, pageVars, otherVars>>
    /\ Attended /\ ops < MaxOps /\ shifts < MaxShifts
    /\ historyStep < Len(history) - 1
    /\ LET json == history[(historyStep + 1) + 1]
           ed   == [history |-> history, historyStep |-> historyStep + 1]
           k    == Len(loadEvents(objects, json))
           res  == loadFromJSON(ed, objects, json)
       IN  /\ objects' = json.objects
           /\ activeObject' = 0
           /\ history' = res.history
           /\ historyStep' = res.historyStep
           /\ shifts' = shifts + Dropped(ed, k)
           /\ recorded' = Min(recorded + k, MaxHistory + 1)
           /\ lastOp' = "redo"
           /\ undoFrom' = IF lastOp = "undo" THEN undoFrom ELSE NoUndo
    /\ ops' = ops + 1

\* a URL without a query string
Url(path) == [path |-> path, search |-> <<>>]

Spinner == [kind |-> "spinner"]
Navigate(to) == [kind |-> "navigate", to |-> to]
Page(path) == [kind |-> "page", path |-> path]

NoStep == [kind |-> "none", h |-> "none", call |-> "none", toast |-> FALSE, sent |-> <<>>]
NoOpening == [as |-> "none", creates |-> 0, failed |-> FALSE]
NoIntent == [kind |-> "none", id |-> "none"]

\* a new MemeCanvasEditor on an empty canvas
NewEditor ==
    /\ objects = <<>>
    /\ activeObject = 0
    /\ history = <<>>
    /\ historyStep = -1
    /\ ops = 0
    /\ shifts = 0
    /\ recorded = 0
    /\ lastOp = "none"
    /\ undoFrom = NoUndo

\* the Editor's effect constructs a new MemeCanvasEditor
Constructed ==
    /\ objects' = <<>>
    /\ activeObject' = 0
    /\ history' = <<>>
    /\ historyStep' = -1
    /\ ops' = 0
    /\ shifts' = 0
    /\ recorded' = 0
    /\ lastOp' = "none"
    /\ undoFrom' = NoUndo

\* the router and AuthProvider when the app starts on the root URL
RouteIdle ==
    /\ location = Url("/")
    /\ loading = TRUE
    /\ isAuthenticated = FALSE
    /\ screen = Navigate("/dashboard")
    /\ redirects = 0
    /\ entered = "/"

\* the api client with nothing stored and nothing sent
ApiIdle ==
    /\ token = "null"
    /\ inflight = <<>>
    /\ lastStep = NoStep

\* no Editor mounted; the server stores one meme of the user
PageIdle ==
    /\ saving = FALSE
    /\ serverMemes = {"m1"}
    /\ opening = NoOpening
    /\ intent = NoIntent

\* sessionStorage holds no generated image
SessionIdle == aiGeneratedImage = "null"

NoPlayback == [frames |-> <<>>, index |-> 0, delay |-> 0]
NoExport == [frames |-> <<>>, next |-> 0]
NewGIF == [added |-> <<>>, rendering |-> FALSE]
NoGifStep == [op |-> "none", from |-> 0, index |-> 0]

\* GifCreator as first rendered, before its mount effect has run
GifCreatorRendered ==
    /\ gifEditor = FALSE
    /\ frameObj = <<>>
    /\ frames = <<>>
    /\ currentFrameIndex = 0
    /\ isPlaying = FALSE
    /\ exporting = FALSE
    /\ gifCanvas = 0
    /\ playback = NoPlayback
    /\ exportJob = NoExport
    /\ encoder = NewGIF
    /\ gifToast = "none"
    /\ gifOps = 0
    /\ lastGif = NoGifStep

NoNotifStep == [kind |-> "none", id |-> "none"]

\* NotificationsPanel as first rendered, before its effect on [user] has run;
\* the server holds three notifications, one of them read
NotificationsPanelRendered ==
    /\ notifications = <<>>
    /\ unreadCount = 0
    /\ notifLoading = FALSE
    /\ serverRead = {"n3"}
    /\ listCalls = <<>>
    /\ markCalls = <<>>
    /\ marked = {}
    /\ loadedUnread = 0
    /\ notifBudget = 0
    /\ lastNotif = NoNotifStep

NoMemesStep == [kind |-> "none", id |-> "none"]

\* MyMemes once its mount effect has called loadMemes
MyMemesMounted ==
    /\ memes = <<>>
    /\ memesLoading = TRUE
    /\ memeListCalls = <<serverMemes>>
    /\ deleteCalls = <<>>
    /\ duplicateCalls = <<>>
    /\ deleted = {}
    /\ lastMemes = NoMemesStep

NoChange == [prop |-> "none", value |-> "none"]

\* the Editor's text controls as useState initialises them, on an empty canvas
TextControlsInitial ==
    /\ fontSize = InitialFontSize
    /\ textColor = "#ffffff"
    /\ strokeColor = "#000000"
    /\ fontFamily = "Impact"
    /\ texts = <<>>
    /\ activeText = 0
    /\ styleOps = 0
    /\ lastChange = NoChange

\* no meme to load: the editor was opened at /editor/new
NoMeme == [objects |-> <<"none">>, background |-> "none"]

\* the Editor page just mounted: a new MemeCanvasEditor on an empty canvas,
\* canvasObjects as useState([]) leaves it, and loadMeme's request for
\* canvas_data in flight when the route names a meme
EditorMounted(canvas_data) ==
    /\ layers = <<>>
    /\ layerActive = 0
    /\ canvasObjects = <<>>
    /\ layerHistory = <<>>
    /\ layerStep = -1
    /\ created = 0
    /\ uploading = 0
    /\ pendingMeme = canvas_data
    /\ layerOps = 0
    /\ lastLayerOp = "none"

\* the other pages as they start
OthersIdle ==
    /\ SessionIdle
    /\ GifCreatorRendered
    /\ NotificationsPanelRendered
    /\ MyMemesMounted
    /\ TextControlsInitial
    /\ EditorMounted(NoMeme)

InitHistory == NewEditor /\ RouteIdle /\ ApiIdle /\ PageIdle /\ OthersIdle

NextHistory ==
    \/ addText
    \/ \E i \in 1..MaxObjects : selectObject(i)
    \/ objectModified
    \/ deleteActiveLayer
    \/ undo
    \/ redo

SpecHistory == InitHistory /\ [][NextHistory]_vars

(***************************************************************************)
(* Claims about the undo/redo history                                      *)
(***************************************************************************)
\* C1: the history never holds more than 50 snapshots; after a saveState
\* historyStep indexes the newest snapshot, which is the canvas as it is; and
\* a save into a full history drops the oldest snapshot and appends the new one.
C1_HistoryAtMost50 ==
    [][ /\ Len(history') <= MaxHistory
        /\ historyStep' <= Len(history') - 1
        /\ lastOp' = "save" =>
              /\ historyStep' = Len(history') - 1
              /\ history'[Len(history')] = toJSON(objects')
        /\ (lastOp' = "save" /\ historyStep = MaxHistory - 1) =>
              history' = Append(Tail(history), toJSON(objects')) ]_vars

\* a save has just dropped the oldest snapshot of a full history
C1_Witness ==
    shifts >= 1 /\ lastOp = "save" /\ Len(history) = MaxHistory

\* C2: once 50 changes have been recorded with no undo in between, 50
\* successive undo steps are available (historyStep is at least 50).
C2_FiftyUndoSteps ==
    recorded >= DocumentedSteps => historyStep >= DocumentedSteps

\* C3: right after an undo, redo is enabled; and a redo that directly follows
\* an undo restores the canvas, historyStep and the history to what they were
\* before the undo.
C3_UndoRedoRoundTrip ==
    /\ lastOp = "undo" => canRedo
    /\ (lastOp = "redo" /\ undoFrom # NoUndo) =>
          /\ toJSON(objects) = undoFrom.json
          /\ historyStep = undoFrom.step
          /\ history = undoFrom.history

(***************************************************************************)
(* services/api.js: the shared axios client                                *)
(***************************************************************************)
\* tokens a login stores
Tokens == {"t1", "t2"}

\* a request interceptor that sets the header whatever localStorage returns
requestInterceptor_Always(tok) == <<"Bearer", tok>>

\* api.interceptors.request: the Authorization header of the outgoing request,
\* <<>> when the interceptor sets none; tok is localStorage.getItem('token')
requestInterceptor(tok) ==
    IF tok # "null" THEN <<"Bearer", tok>> ELSE <<>>

\* a client that sends a rejected request again
onRejected_Retry(r) == <<r>>

\* the requests the client itself sends when request r is rejected: api has no
\* response interceptor, so none
onRejected(r) == <<>>

\* api.get/post/put/delete issued by handler h: the request as it leaves the client.
\* live: the component state the handler closed over still exists
Request(h, call, arg) ==
    [h |-> h, call |-> call, arg |-> arg, headers |-> requestInterceptor(token),
     stored |-> token, live |-> TRUE]

Remove(seq, i) == [j \in 1..(Len(seq) - 1) |-> IF j < i THEN seq[j] ELSE seq[j + 1]]

(***************************************************************************)
(* The page and panel handlers that call the api: the call each sends,     *)
(* whether its catch block shows toast.error, and the handler it calls     *)
(* after a success.                                                        *)
(***************************************************************************)
DashboardHandlers ==
    { [name |-> "Dashboard.loadTrends", call |-> "trendAPI.list",
       errorToast |-> FALSE, then |-> "none"] }

TemplatesHandlers ==
    { [name |-> "Templates.loadCategories", call |-> "templateAPI.categories",
       errorToast |-> FALSE, then |-> "none"],
      [name |-> "Templates.loadTemplates", call |-> "templateAPI.list",
       errorToast |-> TRUE, then |-> "none"],
      [name |-> "Templates.handleVote", call |-> "templateAPI.vote",
       errorToast |-> TRUE, then |-> "Templates.loadTemplates"] }

MyMemesHandlers ==
    { [name |-> "MyMemes.loadMemes", call |-> "memeAPI.list",
       errorToast |-> TRUE, then |-> "none"],
      [name |-> "MyMemes.handleDuplicate", call |-> "memeAPI.duplicate",
       errorToast |-> TRUE, then |-> "MyMemes.loadMemes"],
      [name |-> "MyMemes.handleDelete", call |-> "memeAPI.delete",
       errorToast |-> TRUE, then |-> "none"] }

EditorHandlers ==
    { [name |-> "Editor.loadTrendTemplate", call |-> "trendAPI.get",
       errorToast |-> TRUE, then |-> "none"],
      [name |-> "Editor.loadMeme", call |-> "memeAPI.get",
       errorToast |-> TRUE, then |-> "none"],
      [name |-> "Editor.handleImageUpload", call |-> "uploadAPI.image",
       errorToast |-> TRUE, then |-> "none"],
      [name |-> "Editor.handleSave", call |-> "memeAPI.update",
       errorToast |-> TRUE, then |-> "none"],
      [name |-> "Editor.handleSave", call |-> "memeAPI.create",
       errorToast |-> TRUE, then |-> "none"] }

AIGeneratorHandlers ==
    { [name |-> "AIGenerator.handleGenerateMeme", call |-> "aiAPI.generateMeme",
       errorToast |-> TRUE, then |-> "none"],
      [name |-> "AIGenerator.handleGenerateImage", call |-> "aiAPI.generateImage",
       errorToast |-> TRUE, then |-> "none"] }

ProfileHandlers ==
    { [name |-> "Profile.handleAvatarUpload", call |-> "uploadAPI.image",
       errorToast |-> TRUE, then |-> "none"] }

NotificationsPanelHandlers ==
    { [name |-> "NotificationsPanel.loadNotifications", call |-> "notificationAPI.list",
       errorToast |-> FALSE, then |-> "none"],
      [name |-> "NotificationsPanel.handleMarkAsRead", call |-> "notificationAPI.markRead",
       errorToast |-> TRUE, then |-> "none"] }

Handlers ==
    DashboardHandlers \cup TemplatesHandlers \cup MyMemesHandlers \cup EditorHandlers
        \cup AIGeneratorHandlers \cup ProfileHandlers \cup NotificationsPanelHandlers

\* the handler rows named n
Named(n) == {row \in Handlers : row.name = n}

\* the catch block of the handler that sent r shows toast.error
ErrorToast(r) == \E row \in Handlers : row.name = r.h /\ row.call = r.call /\ row.errorToast

\* the requests the handler that sent r sends after r succeeded
Chained(r) ==
    LET rows == {row \in Handlers : row.name = r.h /\ row.call = r.call}
        next == UNION {Named(row.then) : row \in rows}
    IN  IF next = {} THEN <<>>
        ELSE LET n == CHOOSE row \in next : TRUE
             IN  <<Request(n.name, n.call, "none")>>

Calls(reqs) == [i \in 1..Len(reqs) |-> reqs[i].call]

ApiOnly == UNCHANGED <<histVars, routeVars, pageVars, otherVars>>

\* login or signup stores the token of the session
StoreToken(t) ==
    /\ token # t
    /\ token' = t
    /\ lastStep' = [NoStep EXCEPT !.kind = "token"]
    /\ UNCHANGED inflight
    /\ ApiOnly

\* logout removes the token
RemoveToken ==
    /\ token # "null"
    /\ token' = "null"
    /\ lastStep' = [NoStep EXCEPT !.kind = "token"]
    /\ UNCHANGED inflight
    /\ ApiOnly

\* a user action or an effect runs handler row up to its await: one request is sent
Invoke(row) ==
    /\ Len(inflight) < MaxInFlight
    /\ LET r == Request(row.name, row.call, "none")
       IN  /\ inflight' = Append(inflight, r)
           /\ lastStep' = [kind |-> "invoke", h |-> row.name, call |-> row.call,
                           toast |-> FALSE, sent |-> <<r.call>>]
    /\ UNCHANGED token
    /\ ApiOnly

\* request i is answered with a 2xx: the handler's try block continues
Succeed(i) ==
    /\ i \in 1..Len(inflight)
    /\ LET r    == inflight[i]
           more == Chained(r)
       IN  /\ inflight' = Remove(inflight, i) \o more
           /\ lastStep' = [kind |-> "ok", h |-> r.h, call |-> r.call,
                           toast |-> FALSE, sent |-> Calls(more)]
    /\ UNCHANGED token
    /\ ApiOnly

\* request i fails (network error or non-2xx): the handler's catch block runs
Fail(i) ==
    /\ i \in 1..Len(inflight)
    /\ LET r    == inflight[i]
           more == onRejected(r)
       IN  /\ inflight' = Remove(inflight, i) \o more
           /\ lastStep' = [kind |-> "fail", h |-> r.h, call |-> r.call,
                           toast |-> ErrorToast(r), sent |-> Calls(more)]
    /\ UNCHANGED token
    /\ ApiOnly

InitApi == NewEditor /\ RouteIdle /\ ApiIdle /\ PageIdle /\ OthersIdle

NextApi ==
    \/ \E t \in Tokens : StoreToken(t)
    \/ RemoveToken
    \/ \E row \in Handlers : Invoke(row)
    \/ \E i \in 1..MaxInFlight : Succeed(i)
    \/ \E i \in 1..MaxInFlight : Fail(i)

SpecApi == InitApi /\ [][NextApi]_vars

(***************************************************************************)
(* Claims about the api client and the handlers' failures                  *)
(***************************************************************************)
\* C6: every request in flight carries Authorization: Bearer <token> for the
\* token that was stored when it was sent, and no Authorization header when
\* none was stored; so a token stored or removed between two requests shows
\* in the later one.
C6_BearerOfStoredToken ==
    \A i \in 1..Len(inflight) :
        inflight[i].headers =
            IF inflight[i].stored = "null" THEN <<>> ELSE <<"Bearer", inflight[i].stored>>

\* a request sent after the stored token was replaced carries the new token
C6_Witness ==
    /\ lastStep.kind = "invoke"
    /\ \E i \in 1..Len(inflight) :
          inflight[i].stored = "t2" /\ inflight[i].headers = <<"Bearer", "t2">>

\* C7: whenever a handler's request has failed, the handler has shown an
\* error toast for it.
C7_FailureShowsToast ==
    lastStep.kind = "fail" => lastStep.toast

\* C8: a handler invocation sends one request; a failure sends nothing further
\* (no retry); a success sends at most the follow-up call of another handler,
\* never the answered call again.
C8_NoAutomaticRetry ==
    /\ lastStep.kind = "invoke" => Len(lastStep.sent) = 1
    /\ lastStep.kind = "fail" => lastStep.sent = <<>>
    /\ lastStep.kind = "ok" =>
          /\ Len(lastStep.sent) <= 1
          /\ \A k \in 1..Len(lastStep.sent) : lastStep.sent[k] # lastStep.call

\* a request has failed and nothing was sent in its place
C8_Witness ==
    lastStep.kind = "fail" /\ lastStep.sent = <<>> /\ inflight = <<>>

(***************************************************************************)
(* App: routes and route guards                                            *)
(***************************************************************************)
\* meme ids that appear in /editor/:id
MemeIds == {"m1", "m2"}
TrendIds == {"t1"}
TemplateIds == {"T1"}

\* the path /editor/:id
EditorPath(id) ==
    CASE id = "new" -> "/editor/new"
      [] id = "m1" -> "/editor/m1"
      [] id = "m2" -> "/editor/m2"

EditorPaths == {EditorPath(id) : id \in MemeIds \cup {"new"}}

\* useParams().id on an editor path
IdOf(path) == CHOOSE id \in MemeIds \cup {"new"} : EditorPath(id) = path

\* searchParams.get(key)
Get(search, key) ==
    IF search # <<>> /\ search[1] = key THEN search[2] ELSE "null"

\* the paths of the protected <Route> elements
ProtectedPaths ==
    {"/dashboard", "/memes", "/templates", "/ai-generate", "/gif-creator", "/profile"}
        \cup EditorPaths

\* the paths of the public <Route> elements
PublicPaths == {"/login", "/signup"}

\* paths the user can enter: every route, the root and a path no route matches
Paths == ProtectedPaths \cup PublicPaths \cup {"/", "/no-such-page"}

\* URLs the user can enter, with the query strings the pages navigate with
Urls ==
    {Url(p) : p \in Paths}
        \cup {[path |-> "/editor/new", search |-> <<"trendId", t>>] : t \in TrendIds}
        \cup {[path |-> "/editor/new", search |-> <<"templateId", t>>] : t \in TemplateIds}

\* ProtectedRoute without the loading check
ProtectedRoute_NoLoading(children, ld, auth) ==
    IF ~auth THEN Navigate("/login") ELSE children

\* ProtectedRoute({children})
ProtectedRoute(children, ld, auth) ==
    IF ld THEN Spinner
    ELSE IF ~auth THEN Navigate("/login")
    ELSE children

\* PublicRoute that sends authenticated users to /login
PublicRoute_ToLogin(children, ld, auth) ==
    IF ld THEN Spinner
    ELSE IF auth THEN Navigate("/login")
    ELSE children

\* PublicRoute({children})
PublicRoute(children, ld, auth) ==
    IF ld THEN Spinner
    ELSE IF auth THEN Navigate("/dashboard")
    ELSE children

\* <Routes>: the element of the route that matches path, rendered
Routes(path, ld, auth) ==
    IF path \in PublicPaths THEN PublicRoute(Page(path), ld, auth)
    ELSE IF path \in ProtectedPaths THEN ProtectedRoute(Page(path), ld, auth)
    ELSE Navigate("/dashboard")

\* the Editor page is what the screen shows
EditorShown(scr) == scr.kind = "page" /\ scr.path \in EditorPaths

(***************************************************************************)
(* pages/Editor.js                                                         *)
(***************************************************************************)
\* the image fabric.Image.fromURL makes of url
Image(url) == [type |-> "image", rev |-> 0, src |-> url]

\* canvas_data the server can hold for a meme
CanvasData == {toJSON(<<>>), toJSON(<<NewText>>)}

\* requests whose handler closed over state that is gone: a load keeps the
\* MemeCanvasEditor it was started for, a save the component instance
Stale(reqs, unmounted) ==
    [i \in 1..Len(reqs) |->
        IF reqs[i].h = "Editor.handleSave" /\ ~unmounted
        THEN reqs[i] ELSE [reqs[i] EXCEPT !.live = FALSE]]

\* the requests the Editor's mount effect sends for loc
MountLoads(loc) ==
    LET trendId == Get(loc.search, "trendId")
        id      == IdOf(loc.path)
    IN  (IF trendId # "null"
         THEN <<Request("Editor.loadTrendTemplate", "trendAPI.get", trendId)>> ELSE <<>>)
        \o (IF id # "new"
            THEN <<Request("Editor.loadMeme", "memeAPI.get", id)>> ELSE <<>>)

\* React commits the render for the new location and auth state: the screen
\* changes, and the Editor's effect on [id, searchParams] disposes the old
\* canvas editor and sets up a new one; a newly mounted Editor starts with
\* saving false. reqs, sav, opn: the requests in flight, saving and the
\* opening as the step's handler leaves them
Committed(reqs, sav, opn) ==
    LET scr   == Routes(location'.path, loading', isAuthenticated')
        shown == EditorShown(screen)
        shows == EditorShown(scr)
    IN  /\ screen' = scr
        /\ opening' = opn
        /\ IF shows /\ (~shown \/ location' # location)
           THEN /\ Constructed
                /\ inflight' = Stale(reqs, ~shown) \o MountLoads(location')
                /\ saving' = IF shown THEN sav ELSE FALSE
           ELSE IF ~shows
           THEN /\ Constructed
                /\ inflight' = Stale(reqs, TRUE)
                /\ saving' = FALSE
           ELSE /\ UNCHANGED histVars
                /\ inflight' = reqs
                /\ saving' = sav
        /\ Len(inflight') <= MaxInFlight

\* the opening a user navigation to url starts
Opened(url) ==
    IF url.path \notin EditorPaths THEN NoOpening
    ELSE IF url = location THEN opening
    ELSE [as |-> IdOf(url.path), creates |-> 0, failed |-> FALSE]

\* navigate(url), a link or the address bar: a navigation that is not a redirect
Navigated(url) ==
    /\ location' = url
    /\ entered' = url.path
    /\ redirects' = 0

\* the user opens a URL
Visit(url) ==
    /\ Navigated(url)
    /\ intent' = NoIntent
    /\ lastStep' = NoStep
    /\ UNCHANGED <<loading, isAuthenticated, token, otherVars, serverMemes>>
    /\ Committed(inflight, saving, Opened(url))

\* a rendered <Navigate to replace /> takes effect
Redirect ==
    /\ screen.kind = "navigate"
    /\ redirects < MaxRedirects
    /\ location' = Url(screen.to)
    /\ redirects' = redirects + 1
    /\ intent' = NoIntent
    /\ lastStep' = NoStep
    /\ UNCHANGED <<loading, isAuthenticated, entered, token, otherVars, serverMemes>>
    /\ Committed(inflight, saving, NoOpening)

\* AuthProvider finishes its initial check of the stored session
AuthResolved(auth) ==
    /\ loading
    /\ loading' = FALSE
    /\ isAuthenticated' = auth
    /\ redirects' = 0
    /\ lastStep' = NoStep
    /\ UNCHANGED <<location, entered, intent, token, otherVars, serverMemes>>
    /\ Committed(inflight, saving, opening)

\* login or signup succeeds on its page
Login ==
    /\ ~loading /\ ~isAuthenticated
    /\ screen = Page(location.path) /\ location.path \in PublicPaths
    /\ isAuthenticated' = TRUE
    /\ redirects' = 0
    /\ lastStep' = NoStep
    /\ UNCHANGED <<location, loading, entered, intent, token, otherVars, serverMemes>>
    /\ Committed(inflight, saving, opening)

\* Profile: the logout button
Logout ==
    /\ screen = Page("/profile")
    /\ isAuthenticated' = FALSE
    /\ redirects' = 0
    /\ lastStep' = NoStep
    /\ UNCHANGED <<location, loading, entered, intent, token, otherVars, serverMemes>>
    /\ Committed(inflight, saving, opening)

\* Templates.handleUseTemplate(templateId)
handleUseTemplate(t) ==
    /\ screen = Page("/templates")
    /\ Navigated([path |-> "/editor/new", search |-> <<"templateId", t>>])
    /\ intent' = [kind |-> "template", id |-> t]
    /\ lastStep' = NoStep
    /\ UNCHANGED <<loading, isAuthenticated, token, otherVars, serverMemes>>
    /\ Committed(inflight, saving, Opened(location'))

\* Dashboard: onClick of a trend card
useTrend(t) ==
    /\ screen = Page("/dashboard")
    /\ Navigated([path |-> "/editor/new", search |-> <<"trendId", t>>])
    /\ intent' = [kind |-> "trend", id |-> t]
    /\ lastStep' = NoStep
    /\ UNCHANGED <<loading, isAuthenticated, token, otherVars, serverMemes>>
    /\ Committed(inflight, saving, Opened(location'))

\* image URLs the AI generator has returned
GeneratedImages == {"ai1"}

\* AIGenerator.handleUseInEditor(imageUrl)
handleUseInEditor(imageUrl) ==
    /\ screen = Page("/ai-generate")
    /\ aiGeneratedImage' = imageUrl
    /\ Navigated(Url("/editor/new"))
    /\ intent' = [kind |-> "ai", id |-> imageUrl]
    /\ lastStep' = NoStep
    /\ UNCHANGED <<loading, isAuthenticated, token, serverMemes>>
    /\ UNCHANGED <<gifVars, notifVars, listVars, styleVars, layerVars>>
    /\ Committed(inflight, saving, Opened(location'))

\* the save button is enabled: disabled={saving}
SaveEnabled_Always == TRUE

SaveEnabled == ~saving

\* Editor.handleSave up to its await
handleSave ==
    /\ EditorShown(screen)
    /\ SaveEnabled
    /\ Len(inflight) < MaxInFlight
    /\ LET id == IdOf(location.path)
           r  == IF id # "new"
                 THEN Request("Editor.handleSave", "memeAPI.update", id)
                 ELSE Request("Editor.handleSave", "memeAPI.create", "none")
       IN  /\ inflight' = Append(inflight, r)
           /\ opening' = IF id # "new" THEN opening
                         ELSE [opening EXCEPT !.creates = Min(@ + 1, 2)]
           /\ lastStep' = [kind |-> "invoke", h |-> r.h, call |-> r.call,
                           toast |-> FALSE, sent |-> <<r.call>>]
    /\ saving' = TRUE
    /\ UNCHANGED <<histVars, routeVars, token, otherVars, serverMemes, intent>>

Answered(r, kind, toast) ==
    [kind |-> kind, h |-> r.h, call |-> r.call, toast |-> toast, sent |-> <<>>]

\* memeAPI.update resolves: toast, setSaving(false)
updateSucceeded(i) ==
    /\ i \in 1..Len(inflight)
    /\ inflight[i].call = "memeAPI.update" /\ inflight[i].arg \in serverMemes
    /\ inflight' = Remove(inflight, i)
    /\ saving' = IF inflight[i].live THEN FALSE ELSE saving
    /\ lastStep' = Answered(inflight[i], "ok", FALSE)
    /\ UNCHANGED <<histVars, routeVars, token, otherVars, serverMemes, opening, intent>>

\* memeAPI.create resolves with the new meme: toast, navigate to its editor
\* URL, setSaving(false)
createSucceeded(i, id) ==
    /\ i \in 1..Len(inflight)
    /\ inflight[i].call = "memeAPI.create"
    /\ id \in MemeIds \ serverMemes
    /\ serverMemes' = serverMemes \cup {id}
    /\ Navigated(Url(EditorPath(id)))
    /\ intent' = NoIntent
    /\ lastStep' = Answered(inflight[i], "ok", FALSE)
    /\ UNCHANGED <<loading, isAuthenticated, token, otherVars>>
    /\ Committed(Remove(inflight, i),
                 IF inflight[i].live THEN FALSE ELSE saving, opening)

\* memeAPI.update or memeAPI.create rejects: toast.error, setSaving(false)
saveFailed(i) ==
    /\ i \in 1..Len(inflight)
    /\ inflight[i].h = "Editor.handleSave"
    /\ inflight' = Remove(inflight, i) \o onRejected(inflight[i])
    /\ saving' = IF inflight[i].live THEN FALSE ELSE saving
    /\ opening' = IF inflight[i].live THEN [opening EXCEPT !.failed = TRUE] ELSE opening
    /\ lastStep' = Answered(inflight[i], "fail", ErrorToast(inflight[i]))
    /\ UNCHANGED <<histVars, routeVars, token, otherVars, serverMemes, intent>>

\* loadTrendTemplate: trendAPI.get resolves and addImage(trend.image_url) puts
\* the image on the canvas editor the effect created
trendLoaded(i) ==
    /\ i \in 1..Len(inflight)
    /\ inflight[i].call = "trendAPI.get"
    /\ inflight' = Remove(inflight, i)
    /\ lastStep' = Answered(inflight[i], "ok", FALSE)
    /\ IF inflight[i].live
       THEN /\ objects' = Append(objects, Image(inflight[i].arg))
            /\ activeObject' = Len(objects) + 1
            /\ Saved(saveState(Editor, toJSON(objects')), 1)
            /\ UNCHANGED ops
       ELSE UNCHANGED histVars
    /\ UNCHANGED <<routeVars, token, otherVars, pageVars>>

\* loadMeme: memeAPI.get resolves and loadFromJSON(meme.canvas_data) fills the
\* canvas editor the effect created
memeLoaded(i, data) ==
    /\ i \in 1..Len(inflight)
    /\ inflight[i].call = "memeAPI.get" /\ inflight[i].arg \in serverMemes
    /\ inflight' = Remove(inflight, i)
    /\ lastStep' = Answered(inflight[i], "ok", FALSE)
    /\ IF inflight[i].live
       THEN /\ objects' = data.objects
            /\ activeObject' = 0
            /\ Saved(loadFromJSON(Editor, objects, data), Len(loadEvents(objects, data)))
            /\ UNCHANGED ops
       ELSE UNCHANGED histVars
    /\ UNCHANGED <<routeVars, token, otherVars, pageVars>>

\* trendAPI.get, the image load or memeAPI.get fails: toast.error
loadFailed(i) ==
    /\ i \in 1..Len(inflight)
    /\ inflight[i].call \in {"trendAPI.get", "memeAPI.get"}
    /\ inflight' = Remove(inflight, i) \o onRejected(inflight[i])
    /\ lastStep' = Answered(inflight[i], "fail", ErrorToast(inflight[i]))
    /\ UNCHANGED <<histVars, routeVars, token, otherVars, pageVars>>

InitApp == NewEditor /\ RouteIdle /\ ApiIdle /\ PageIdle /\ OthersIdle

NextApp ==
    \/ \E url \in Urls : Visit(url)
    \/ Redirect
    \/ \E auth \in BOOLEAN : AuthResolved(auth)
    \/ Login
    \/ Logout
    \/ \E t \in TemplateIds : handleUseTemplate(t)
    \/ \E t \in TrendIds : useTrend(t)
    \/ \E imageUrl \in GeneratedImages : handleUseInEditor(imageUrl)
    \/ handleSave
    \/ \E i \in 1..MaxInFlight : updateSucceeded(i)
    \/ \E i \in 1..MaxInFlight, id \in MemeIds : createSucceeded(i, id)
    \/ \E i \in 1..MaxInFlight : saveFailed(i)
    \/ \E i \in 1..MaxInFlight : trendLoaded(i)
    \/ \E i \in 1..MaxInFlight, data \in CanvasData : memeLoaded(i, data)
    \/ \E i \in 1..MaxInFlight : loadFailed(i)

SpecApp == InitApp /\ [][NextApp]_vars

(***************************************************************************)
(* Claims about routing and the editor page                                *)
(***************************************************************************)
\* C4: a protected page is on screen only when auth loading is over and the
\* user is authenticated; on a protected path the screen is the spinner while
\* loading, and the redirect to /login when loading is over and the user is
\* not authenticated.
C4_ProtectedRouting ==
    /\ (screen.kind = "page" /\ screen.path \in ProtectedPaths) =>
          (~loading /\ isAuthenticated)
    /\ (location.path \in ProtectedPaths /\ loading) => screen = Spinner
    /\ (location.path \in ProtectedPaths /\ ~loading /\ ~isAuthenticated) =>
          screen = Navigate("/login")

\* an unauthenticated visit of a protected path is being redirected to /login
C4_Witness ==
    /\ location.path \in ProtectedPaths /\ ~loading /\ ~isAuthenticated
    /\ screen = Navigate("/login")

\* the screen shows a page and auth loading is over
Settled == ~loading /\ screen.kind = "page"

\* C5: with the auth state unchanged, a navigation is followed by at most two
\* redirects; the root and unknown paths redirect to /dashboard; once the
\* screen shows a page, an unauthenticated user is on /login or /signup (on
\* /signup only when that was entered) and an authenticated user on a
\* protected page, which is /dashboard when the root, an unknown path, /login
\* or /signup was entered.
C5_NavigationSettles ==
    /\ redirects <= 2
    /\ (location.path \notin ProtectedPaths \cup PublicPaths) =>
          screen = Navigate("/dashboard")
    /\ (Settled /\ ~isAuthenticated) =>
          /\ location.path \in PublicPaths
          /\ location.path = "/signup" => entered = "/signup"
    /\ (Settled /\ isAuthenticated) =>
          /\ location.path \in ProtectedPaths
          /\ entered \notin ProtectedPaths => location.path = "/dashboard"

\* the root URL entered without a session has settled on /login after two redirects
C5_Witness ==
    /\ Settled /\ ~isAuthenticated /\ entered = "/"
    /\ redirects = 2 /\ location.path = "/login"

\* C9: handleSave sends a create when the route id is 'new', else an update
\* for the route id; a create that succeeds navigates to /editor/<new id>;
\* and an editor opened as 'new' whose saves have not failed has sent at most
\* one create.
C9_OneCreateThenUpdates ==
    [][ /\ (saving' /\ ~saving) =>
              LET r  == inflight'[Len(inflight')]
                  id == IdOf(location.path)
              IN  /\ r.h = "Editor.handleSave"
                  /\ IF id = "new" THEN r.call = "memeAPI.create"
                     ELSE r.call = "memeAPI.update" /\ r.arg = id
        /\ (lastStep'.kind = "ok" /\ lastStep'.call = "memeAPI.create") =>
              \E id \in serverMemes' \ serverMemes : location' = Url(EditorPath(id))
        /\ (opening'.as = "new" /\ ~opening'.failed) => opening'.creates <= 1 ]_vars

\* an editor opened as 'new' has created its meme and now sends an update for it
C9_Witness ==
    /\ opening.as = "new" /\ opening.creates = 1 /\ ~opening.failed
    /\ location.path = "/editor/m2"
    /\ \E i \in 1..Len(inflight) :
          inflight[i].call = "memeAPI.update" /\ inflight[i].arg = "m2"

\* the Editor's loads for the current canvas editor are over
LoadingComplete ==
    \A i \in 1..Len(inflight) :
        ~(inflight[i].live /\ inflight[i].call \in {"trendAPI.get", "memeAPI.get"})

\* C10: once the editor opened by 'Use Template' for template T has finished
\* loading, T's image is on the canvas.
C10_TemplateOnCanvas ==
    (intent.kind = "template" /\ EditorShown(screen) /\ LoadingComplete) =>
        \E k \in 1..Len(objects) :
            objects[k].type = "image" /\ objects[k].src = intent.id

\* C11: once the editor opened by 'Use in Editor' for an AI-generated image has
\* finished loading, that image is on the canvas.
C11_GeneratedImageOnCanvas ==
    (intent.kind = "ai" /\ EditorShown(screen) /\ LoadingComplete) =>
        \E k \in 1..Len(objects) :
            objects[k].type = "image" /\ objects[k].src = intent.id

(***************************************************************************)
(* pages/Dashboard.js: GifCreator                                          *)
(***************************************************************************)
\* frame objects created in one session
MaxFrameObjs == 2
\* timeline operations of one session (add, duplicate, delete, select, duration)
MaxGifOps == 3
\* length of the operation sequences searched for a reordering
MaxReorderOps == 2

\* captureCurrentFrame and the mount effect: duration: 1000
DefaultDuration == 1000
\* the duration slider: min={100} max={3000} step={100}
SliderMin == 100
SliderMax == 3000
SliderStep == 100
\* README: "Per-frame duration control (100-3000ms)"
DocumentedMin == 100
DocumentedMax == 3000

GifOnly ==
    UNCHANGED <<histVars, routeVars, apiVars, pageVars, sessionVars, notifVars,
                listVars, styleVars, layerVars>>

\* a slider that starts at 0
SliderValues_FromZero ==
    {SliderStep * k : k \in 0..(SliderMax \div SliderStep)}

\* the values the duration slider can hand to onValueChange
SliderValues ==
    {SliderMin + SliderStep * k : k \in 0..((SliderMax - SliderMin) \div SliderStep)}

Lowest(S) == CHOOSE x \in S : \A y \in S : x <= y
Highest(S) == CHOOSE x \in S : \A y \in S : x >= y

\* the slider positions the model tries: both ends and the default
Durations == {Lowest(SliderValues), DefaultDuration, Highest(SliderValues)}

\* the GIF creator offers no tool that puts an object on its canvas: the
\* canvas, and so every frame's canvasData, is the JSON of the empty canvas
EmptyCanvas == toJSON(<<>>)

\* the frame object of the mount effect
initialFrame == [canvasData |-> EmptyCanvas, duration |-> DefaultDuration]

\* captureCurrentFrame(): no frame (null) or the one frame captured
captureCurrentFrame(ed) ==
    IF ~ed THEN <<>>
    ELSE <<[canvasData |-> EmptyCanvas, duration |-> DefaultDuration]>>

\* seq.splice(i, 0, x): x becomes the element of JS index i
InsertAt(seq, i, x) ==
    SubSeq(seq, 1, i) \o <<x>> \o SubSeq(seq, i + 1, Len(seq))

\* handleAddFrame: [...frames, newFrame]
addFrame(fs, f) == Append(fs, f)

\* handleDuplicateFrame: newFrames.splice(index + 1, 0, duplicatedFrame)
duplicateFrame(fs, index, f) == InsertAt(fs, index + 1, f)

\* handleDeleteFrame: frames.filter((_, i) => i !== index)
deleteFrame(fs, index) == Remove(fs, index + 1)

\* handleDeleteFrame deletes whatever the timeline holds
CanDeleteFrame_Always(fs) == TRUE

\* handleDeleteFrame: not (frames.length <= 1)
CanDeleteFrame(fs) == ~(Len(fs) <= 1)

\* every frame is handed over with the default delay
addFrameOptions_Default(frame) == [delay |-> DefaultDuration]

\* handleExportGIF: gif.addFrame(tempCanvas, { delay: frame.duration })
addFrameOptions(frame) == [delay |-> frame.duration]

GifStep(op) == [op |-> op, from |-> 0, index |-> 0]

\* the card indexes the timeline renders
Cards == 0..(Len(frames) - 1)

\* the mount effect: setEditor, setFrames([initialFrame])
mountGifCreator ==
    /\ ~gifEditor
    /\ gifEditor' = TRUE
    /\ frameObj' = Append(frameObj, initialFrame)
    /\ frames' = <<Len(frameObj')>>
    /\ lastGif' = GifStep("mount")
    /\ UNCHANGED <<currentFrameIndex, isPlaying, exporting, gifCanvas, playback,
                   exportJob, encoder, gifToast, gifOps>>
    /\ GifOnly

\* handleAddFrame
handleAddFrame ==
    /\ gifOps < MaxGifOps
    /\ LET newFrame == captureCurrentFrame(gifEditor)
       IN  /\ Len(frameObj) + Len(newFrame) <= MaxFrameObjs
           /\ frameObj' = frameObj \o newFrame
           /\ IF newFrame # <<>>
              THEN /\ frames' = addFrame(frames, Len(frameObj'))
                   /\ currentFrameIndex' = Len(frames)
                   /\ gifToast' = "Frame added"
              ELSE UNCHANGED <<frames, currentFrameIndex, gifToast>>
    /\ gifOps' = gifOps + 1
    /\ lastGif' = GifStep("add")
    /\ UNCHANGED <<gifEditor, isPlaying, exporting, gifCanvas, playback, exportJob,
                   encoder>>
    /\ GifOnly

\* handleDuplicateFrame(index)
handleDuplicateFrame(index) ==
    /\ gifOps < MaxGifOps
    /\ index \in Cards
    /\ Len(frameObj) < MaxFrameObjs
    /\ frameObj' = Append(frameObj, frameObj[frames[index + 1]])
    /\ frames' = duplicateFrame(frames, index, Len(frameObj'))
    /\ gifToast' = "Frame duplicated"
    /\ gifOps' = gifOps + 1
    /\ lastGif' = [op |-> "duplicate", from |-> index, index |-> index + 1]
    /\ UNCHANGED <<gifEditor, currentFrameIndex, isPlaying, exporting, gifCanvas,
                   playback, exportJob, encoder>>
    /\ GifOnly

\* handleDeleteFrame(index): its first branch is the handler's own guard (the
\* delete buttons carry the same condition as disabled); its loadFrame call
\* reads the frames of the render the handler belongs to
handleDeleteFrame(index) ==
    /\ gifOps < MaxGifOps
    /\ index \in Cards
    /\ IF ~CanDeleteFrame(frames)
       THEN /\ gifToast' = "Cannot delete the only frame"
            /\ UNCHANGED <<frames, currentFrameIndex, gifCanvas>>
       ELSE LET newFrames == deleteFrame(frames, index)
            IN  /\ frames' = newFrames
                /\ IF currentFrameIndex >= Len(newFrames)
                   THEN /\ currentFrameIndex' = Len(newFrames) - 1
                        /\ gifCanvas' = IF Len(newFrames) >= 1
                                        THEN frames[Len(newFrames)] ELSE gifCanvas
                   ELSE UNCHANGED <<currentFrameIndex, gifCanvas>>
                /\ gifToast' = "Frame deleted"
    /\ gifOps' = gifOps + 1
    /\ lastGif' = [op |-> "delete", from |-> index, index |-> 0]
    /\ UNCHANGED <<gifEditor, frameObj, isPlaying, exporting, playback, exportJob,
                   encoder>>
    /\ GifOnly

\* loadFrame(index), from a click on a frame card
loadFrame(index) ==
    /\ gifOps < MaxGifOps
    /\ index \in Cards
    /\ gifEditor
    /\ gifCanvas' = frames[index + 1]
    /\ currentFrameIndex' = index
    /\ gifOps' = gifOps + 1
    /\ lastGif' = [op |-> "select", from |-> 0, index |-> index]
    /\ UNCHANGED <<gifEditor, frameObj, frames, isPlaying, exporting, playback,
                   exportJob, encoder, gifToast>>
    /\ GifOnly

\* updateFrameDuration(index, duration): the frame object itself is written
updateFrameDuration(index, duration) ==
    /\ gifOps < MaxGifOps
    /\ index \in Cards
    /\ frameObj' = [frameObj EXCEPT ![frames[index + 1]].duration = duration]
    /\ gifOps' = gifOps + 1
    /\ lastGif' = [op |-> "duration", from |-> 0, index |-> index]
    /\ UNCHANGED <<gifEditor, frames, currentFrameIndex, isPlaying, exporting,
                   gifCanvas, playback, exportJob, encoder, gifToast>>
    /\ GifOnly

\* handlePlay, with the first playFrame(); the Preview button is rendered
\* while isPlaying is false
handlePlay ==
    /\ ~isPlaying
    /\ IF Len(frames) = 0
       THEN UNCHANGED <<isPlaying, gifCanvas, currentFrameIndex, playback>>
       ELSE /\ isPlaying' = TRUE
            /\ gifCanvas' = frames[1]
            /\ currentFrameIndex' = 0
            /\ playback' = [frames |-> frames, index |-> 0,
                            delay |-> frameObj[frames[1]].duration]
    /\ lastGif' = GifStep("play")
    /\ UNCHANGED <<gifEditor, frameObj, frames, exporting, exportJob, encoder,
                   gifToast, gifOps>>
    /\ GifOnly

\* the timer of playFrame fires: the next frame of handlePlay's frames is
\* loaded and the timer armed again
playFrame ==
    /\ playback.delay > 0
    /\ LET index == (playback.index + 1) % Len(playback.frames)
           frame == playback.frames[index + 1]
       IN  /\ gifCanvas' = frame
           /\ currentFrameIndex' = index
           /\ playback' = [playback EXCEPT !.index = index,
                                           !.delay = frameObj[frame].duration]
           /\ lastGif' = [op |-> "tick", from |-> playback.index, index |-> index]
    /\ UNCHANGED <<gifEditor, frameObj, frames, isPlaying, exporting, exportJob,
                   encoder, gifToast, gifOps>>
    /\ GifOnly

\* handleStop; the Stop button is rendered while isPlaying is true
handleStop ==
    /\ isPlaying
    /\ isPlaying' = FALSE
    /\ playback' = NoPlayback
    /\ lastGif' = GifStep("stop")
    /\ UNCHANGED <<gifEditor, frameObj, frames, currentFrameIndex, exporting,
                   gifCanvas, exportJob, encoder, gifToast, gifOps>>
    /\ GifOnly

\* handleExportGIF up to its first await: its first branch is the handler's
\* own guard, reached while the mount effect has not set the frames; the
\* Export button is disabled while exporting
handleExportGIF ==
    /\ IF Len(frames) = 0
       THEN /\ gifToast' = "No frames to export"
            /\ UNCHANGED <<exporting, exportJob, encoder>>
       ELSE /\ ~exporting
            /\ exporting' = TRUE
            /\ gifToast' = "Generating GIF... This may take a moment"
            /\ encoder' = NewGIF
            /\ exportJob' = [frames |-> frames, next |-> 1]
    /\ lastGif' = GifStep("export")
    /\ UNCHANGED <<gifEditor, frameObj, frames, currentFrameIndex, isPlaying,
                   gifCanvas, playback, gifOps>>
    /\ GifOnly

\* the wait of the export loop ends: gif.addFrame for the frame waited for,
\* then the next frame's wait or, after the last frame, gif.render()
frameRendered ==
    /\ exportJob.next > 0
    /\ LET f    == exportJob.frames[exportJob.next]
           last == exportJob.next = Len(exportJob.frames)
       IN  /\ encoder' = [added |-> Append(encoder.added,
                                       [frame |-> f] @@ addFrameOptions(frameObj[f])),
                          rendering |-> last]
           /\ exportJob' = [exportJob EXCEPT !.next = IF last THEN 0 ELSE @ + 1]
    /\ lastGif' = GifStep("addFrame")
    /\ UNCHANGED <<gifEditor, frameObj, frames, currentFrameIndex, isPlaying,
                   exporting, gifCanvas, playback, gifToast, gifOps>>
    /\ GifOnly

\* gif.render() throws after the last frame was added (the worker script of
\* another origin cannot be started): the catch block
renderThrows ==
    /\ exportJob.next > 0
    /\ exportJob.next = Len(exportJob.frames)
    /\ LET f == exportJob.frames[exportJob.next]
       IN  encoder' = [added |-> Append(encoder.added,
                                    [frame |-> f] @@ addFrameOptions(frameObj[f])),
                       rendering |-> FALSE]
    /\ exportJob' = [exportJob EXCEPT !.next = 0]
    /\ gifToast' = "Failed to export GIF"
    /\ exporting' = FALSE
    /\ lastGif' = GifStep("catch")
    /\ UNCHANGED <<gifEditor, frameObj, frames, currentFrameIndex, isPlaying,
                   gifCanvas, playback, gifOps>>
    /\ GifOnly

\* the encoder's 'finished' event: download, toast, setExporting(false)
gifFinished ==
    /\ encoder.rendering
    /\ encoder' = [encoder EXCEPT !.rendering = FALSE]
    /\ gifToast' = "GIF exported successfully!"
    /\ exporting' = FALSE
    /\ lastGif' = GifStep("finished")
    /\ UNCHANGED <<gifEditor, frameObj, frames, currentFrameIndex, isPlaying,
                   gifCanvas, playback, exportJob, gifOps>>
    /\ GifOnly

InitGif == NewEditor /\ RouteIdle /\ ApiIdle /\ PageIdle /\ OthersIdle

NextGif ==
    \/ mountGifCreator
    \/ handleAddFrame
    \/ \E index \in 0..(MaxFrameObjs - 1) : handleDuplicateFrame(index)
    \/ \E index \in 0..(MaxFrameObjs - 1) : handleDeleteFrame(index)
    \/ \E index \in 0..(MaxFrameObjs - 1) : loadFrame(index)
    \/ \E index \in 0..(MaxFrameObjs - 1), duration \in Durations :
          updateFrameDuration(index, duration)
    \/ handlePlay
    \/ playFrame
    \/ handleStop
    \/ handleExportGIF
    \/ frameRendered
    \/ renderThrows
    \/ gifFinished

SpecGif == InitGif /\ [][NextGif]_vars

(***************************************************************************)
(* Claims about the GIF creator                                            *)
(***************************************************************************)
\* the frame object of the timeline's k-th frame
Frame(k) == frameObj[frames[k]]

\* C12: every frame of the timeline has a duration between 100 ms and
\* 3000 ms inclusive, in every reachable state.
C12_DurationInRange ==
    \A k \in 1..Len(frames) :
        DocumentedMin <= Frame(k).duration /\ Frame(k).duration <= DocumentedMax

\* a duplicate has just copied a duration the slider had set to an end of its range
C12_Witness ==
    /\ lastGif.op = "duplicate"
    /\ Frame(lastGif.index + 1).duration \in {SliderMin, SliderMax}
    /\ Frame(lastGif.index + 1).duration = Frame(lastGif.from + 1).duration

\* C13: once the mount effect has created the initial frame the timeline is
\* never empty, and handleDeleteFrame on a one-frame timeline shows 'Cannot
\* delete the only frame' and leaves frames and currentFrameIndex unchanged.
C13_TimelineNeverEmpty ==
    [][ /\ gifEditor' => Len(frames') >= 1
        /\ (lastGif'.op = "delete" /\ Len(frames) = 1) =>
              /\ gifToast' = "Cannot delete the only frame"
              /\ frames' = frames
              /\ currentFrameIndex' = currentFrameIndex ]_vars

\* the delete of the only frame left of several has just been refused
C13_Witness ==
    /\ lastGif.op = "delete"
    /\ gifToast = "Cannot delete the only frame"
    /\ Len(frames) = 1
    /\ Len(frameObj) >= 2

\* C14: while the preview plays, the frame just loaded is the timeline's
\* first frame at the start and afterwards the frame after the one loaded
\* before it, wrapping from the last frame to frame 0; it is on the canvas,
\* and the timer armed for it has that frame's duration.
C14_PreviewFollowsTimeline ==
    lastGif.op \in {"play", "tick"} /\ isPlaying =>
        /\ lastGif.index =
              IF lastGif.op = "play" THEN 0 ELSE (lastGif.from + 1) % Len(frames)
        /\ gifCanvas = frames[lastGif.index + 1]
        /\ playback.delay = Frame(lastGif.index + 1).duration

\* C15: whenever handleExportGIF hands a frame to the encoder, it is the next
\* frame, in order, of the timeline it was called with, and its delay is that
\* frame's duration; rendering starts only when every frame of that timeline
\* has been handed over, one encoder frame each; called with an empty
\* timeline it adds nothing, shows 'No frames to export' and leaves exporting
\* false.
C15_ExportHandsOverTimeline ==
    [][ /\ (encoder'.added # encoder.added /\ encoder'.added # <<>>) =>
              LET k == Len(encoder'.added)
              IN  /\ k <= Len(exportJob.frames)
                  /\ encoder'.added =
                        Append(encoder.added,
                               [frame |-> exportJob.frames[k],
                                delay |-> frameObj[exportJob.frames[k]].duration])
        /\ encoder'.rendering =>
              /\ Len(encoder'.added) = Len(exportJob'.frames)
              /\ \A k \in 1..Len(encoder'.added) :
                    encoder'.added[k].frame = exportJob'.frames[k]
        /\ (lastGif'.op = "export" /\ Len(frames) = 0) =>
              /\ encoder' = encoder
              /\ gifToast' = "No frames to export"
              /\ exporting' = FALSE ]_vars

\* rendering has started for a timeline of two frames of different durations
C15_Witness ==
    /\ encoder.rendering
    /\ Len(encoder.added) >= 2
    /\ encoder.added[1].delay # encoder.added[2].delay

Position(fs, x) == CHOOSE k \in 1..Len(fs) : fs[k] = x
Members(fs) == {fs[k] : k \in 1..Len(fs)}

\* two frames of both timelines are in one order in fs and in the other in g
Reordered(fs, g) ==
    \E a, b \in Members(fs) \cap Members(g) :
        Position(fs, a) < Position(fs, b) /\ Position(g, b) < Position(g, a)

\* the timelines one timeline operation makes of fs; a new frame object gets
\* the reference fresh (loadFrame and updateFrameDuration leave fs as it is)
TimelineSteps(fs, fresh) ==
    {fs, addFrame(fs, fresh)}
        \cup {duplicateFrame(fs, index, fresh) : index \in 0..(Len(fs) - 1)}
        \cup {deleteFrame(fs, index) : index \in {i \in 0..(Len(fs) - 1) : CanDeleteFrame(fs)}}

RECURSIVE TimelinesAfter(_, _, _)
\* the timelines at most n timeline operations make of fs
TimelinesAfter(fs, fresh, n) ==
    IF n = 0 THEN {fs}
    ELSE {fs} \cup UNION {TimelinesAfter(g, fresh + 1, n - 1) : g \in TimelineSteps(fs, fresh)}

\* C16: from a timeline of two or more frames, some sequence of timeline
\* operations changes the relative order of two frames that both remain.
C16_FramesCanBeReordered ==
    Len(frames) >= 2 =>
        \E g \in TimelinesAfter(frames, Len(frameObj) + 1, MaxReorderOps) :
            Reordered(frames, g)

(***************************************************************************)
(* NotificationsPanel (README.md)                                          *)
(***************************************************************************)
\* clicks on notifications and reloads of one session
MaxNotifSteps == 5

NotifOnly ==
    UNCHANGED <<histVars, routeVars, apiVars, pageVars, sessionVars, gifVars,
                listVars, styleVars, layerVars>>

\* the notifications of the user on the server, in the order the list call
\* returns them; none of them carries a link
NotificationIds == <<"n1", "n2", "n3">>

\* response.data of notificationAPI.list when the server holds read as read
ListResponse(read) ==
    [k \in 1..Len(NotificationIds) |->
        [id |-> NotificationIds[k], is_read |-> NotificationIds[k] \in read]]

\* response.data.filter(n => !n.is_read).length
Unread(list) == Cardinality({k \in 1..Len(list) : ~list[k].is_read})

\* every click on an item calls handleMarkAsRead
ItemMarks_Always(notification) == TRUE

\* the item's onClick: if (!notification.is_read) handleMarkAsRead(...)
ItemMarks(notification) == ~notification.is_read

\* notifications.map(n => n.id === notificationId ? { ...n, is_read: true } : n)
MarkedRead(list, notificationId) ==
    [k \in 1..Len(list) |->
        IF list[k].id = notificationId THEN [list[k] EXCEPT !.is_read = TRUE]
        ELSE list[k]]

\* the effect on [user] runs with a user: loadNotifications up to its await
loadNotifications ==
    /\ notifBudget < MaxNotifSteps
    /\ notifLoading' = TRUE
    /\ listCalls' = Append(listCalls, serverRead)
    /\ notifBudget' = notifBudget + 1
    /\ lastNotif' = [kind |-> "load", id |-> "none"]
    /\ UNCHANGED <<notifications, unreadCount, serverRead, markCalls, marked,
                   loadedUnread>>
    /\ NotifOnly

\* notificationAPI.list resolves: the response shows what the server held at
\* some moment between the request and now
listLoaded(i, read) ==
    /\ i \in 1..Len(listCalls)
    /\ listCalls[i] \subseteq read /\ read \subseteq serverRead
    /\ notifications' = ListResponse(read)
    /\ unreadCount' = Unread(ListResponse(read))
    /\ notifLoading' = FALSE
    /\ listCalls' = Remove(listCalls, i)
    /\ markCalls' = [k \in 1..Len(markCalls) |-> [markCalls[k] EXCEPT !.old = TRUE]]
    /\ marked' = {}
    /\ loadedUnread' = unreadCount'
    /\ lastNotif' = [kind |-> "loaded", id |-> "none"]
    /\ UNCHANGED <<serverRead, notifBudget>>
    /\ NotifOnly

\* notificationAPI.list rejects: console.error, setLoading(false)
listFailed(i) ==
    /\ i \in 1..Len(listCalls)
    /\ notifLoading' = FALSE
    /\ listCalls' = Remove(listCalls, i)
    /\ lastNotif' = [kind |-> "loadFailed", id |-> "none"]
    /\ UNCHANGED <<notifications, unreadCount, serverRead, markCalls, marked,
                   loadedUnread, notifBudget>>
    /\ NotifOnly

\* onClick of the k-th item of the list (rendered while loading is false),
\* with handleMarkAsRead up to its await: the handler keeps the notifications
\* and unreadCount of the render it belongs to
clickNotification(k) ==
    /\ notifBudget < MaxNotifSteps
    /\ ~notifLoading
    /\ k \in 1..Len(notifications)
    /\ markCalls' =
          IF ItemMarks(notifications[k])
          THEN Append(markCalls, [id |-> notifications[k].id,
                                  notifications |-> notifications,
                                  unreadCount |-> unreadCount, old |-> FALSE])
          ELSE markCalls
    /\ notifBudget' = notifBudget + 1
    /\ lastNotif' = [kind |-> "click", id |-> notifications[k].id]
    /\ UNCHANGED <<notifications, unreadCount, notifLoading, serverRead, listCalls,
                   marked, loadedUnread>>
    /\ NotifOnly

\* notificationAPI.markRead resolves: the rest of handleMarkAsRead's try block
markSucceeded(i) ==
    /\ i \in 1..Len(markCalls)
    /\ LET call == markCalls[i]
       IN  /\ serverRead' = serverRead \cup {call.id}
           /\ notifications' = MarkedRead(call.notifications, call.id)
           /\ unreadCount' = Max(0, call.unreadCount - 1)
           /\ IF call.old
              THEN /\ marked' = {}
                   /\ loadedUnread' = -1
                   /\ lastNotif' = [kind |-> "markedOld", id |-> call.id]
              ELSE /\ marked' = marked \cup {call.id}
                   /\ loadedUnread' = loadedUnread
                   /\ lastNotif' = [kind |-> "marked", id |-> call.id]
    /\ markCalls' = Remove(markCalls, i)
    /\ UNCHANGED <<notifLoading, listCalls, notifBudget>>
    /\ NotifOnly

\* notificationAPI.markRead rejects: toast.error('Failed to mark as read')
markFailed(i) ==
    /\ i \in 1..Len(markCalls)
    /\ markCalls' = Remove(markCalls, i)
    /\ lastNotif' = [kind |-> "markFailed", id |-> markCalls[i].id]
    /\ UNCHANGED <<notifications, unreadCount, notifLoading, serverRead, listCalls,
                   marked, loadedUnread, notifBudget>>
    /\ NotifOnly

InitNotifications == NewEditor /\ RouteIdle /\ ApiIdle /\ PageIdle /\ OthersIdle

NextNotifications ==
    \/ loadNotifications
    \/ \E i \in 1..MaxNotifSteps, read \in SUBSET Members(NotificationIds) :
          listLoaded(i, read)
    \/ \E i \in 1..MaxNotifSteps : listFailed(i)
    \/ \E k \in 1..Len(NotificationIds) : clickNotification(k)
    \/ \E i \in 1..MaxNotifSteps : markSucceeded(i)
    \/ \E i \in 1..MaxNotifSteps : markFailed(i)

SpecNotifications == InitNotifications /\ [][NextNotifications]_vars

(***************************************************************************)
(* Claims about the notifications panel                                    *)
(***************************************************************************)
\* the list shows the notification id as read
ShownRead(list, id) == \E k \in 1..Len(list) : list[k].id = id /\ list[k].is_read

\* C17: unreadCount equals the number of entries of the notifications list
\* whose is_read is false, and is never negative, whatever the order in which
\* loadNotifications and handleMarkAsRead calls complete or fail.
C17_UnreadCountMatchesList ==
    /\ unreadCount = Unread(notifications)
    /\ unreadCount >= 0

\* a markRead answer has just put back the list of its handler's render, in
\* which a notification marked read since is unread again
C17_Witness ==
    /\ lastNotif.kind = "marked"
    /\ \E id \in marked : ~ShownRead(notifications, id)
    /\ unreadCount >= 1

\* C18: when markRead calls started on the loaded list have succeeded, every
\* notification they were for is shown read and unreadCount is lower than the
\* loaded count by their number (two lower for two notifications A and B, in
\* whatever order the calls started and completed); a markRead call that
\* fails leaves the list and unreadCount unchanged.
C18_BothMarkedRead ==
    [][ /\ (lastNotif'.kind = "marked" /\ loadedUnread' >= 0) =>
              /\ \A id \in marked' : ShownRead(notifications', id)
              /\ unreadCount' = loadedUnread' - Cardinality(marked')
        /\ lastNotif'.kind = "markFailed" =>
              /\ notifications' = notifications
              /\ unreadCount' = unreadCount ]_vars

(***************************************************************************)
(* pages/MyMemes.js: MyMemes                                               *)
(***************************************************************************)
\* requests of one kind in flight at one time on the My Memes page
MaxMemeCalls == 2

\* the ids memes can have, in the order memeAPI.list returns them
AllMemes == <<"m1", "m2", "m3">>

\* response.data of memeAPI.list when the server holds the memes ids
Listed(ids) == SelectSeq(AllMemes, LAMBDA m : m \in ids)

\* handleDelete: not (!window.confirm(...))
Confirmed(answer) == answer

\* memes.filter((m) => m.id !== memeId)
Without(list, memeId) == SelectSeq(list, LAMBDA m : m # memeId)

MemesOnly ==
    UNCHANGED <<histVars, routeVars, apiVars, sessionVars, gifVars, notifVars,
                styleVars, layerVars, saving, opening, intent>>

\* loadMemes after its await: the response shows the server as it was when
\* the request was sent or as it is now
memesLoaded(i, data) ==
    /\ i \in 1..Len(memeListCalls)
    /\ data \in {memeListCalls[i], serverMemes}
    /\ memes' = Listed(data)
    /\ memesLoading' = FALSE
    /\ memeListCalls' = Remove(memeListCalls, i)
    /\ lastMemes' = [kind |-> "loaded", id |-> "none"]
    /\ UNCHANGED <<serverMemes, deleteCalls, duplicateCalls, deleted>>
    /\ MemesOnly

\* loadMemes' catch: toast.error, setLoading(false)
memesLoadFailed(i) ==
    /\ i \in 1..Len(memeListCalls)
    /\ memesLoading' = FALSE
    /\ memeListCalls' = Remove(memeListCalls, i)
    /\ lastMemes' = [kind |-> "loadFailed", id |-> "none"]
    /\ UNCHANGED <<serverMemes, memes, deleteCalls, duplicateCalls, deleted>>
    /\ MemesOnly

\* handleDelete(memeId) of the k-th card (rendered while loading is false), up
\* to its await; answer is what window.confirm returns; the handler keeps the
\* memes of the render it belongs to
handleDelete(k, answer) ==
    /\ ~memesLoading
    /\ k \in 1..Len(memes)
    /\ IF ~Confirmed(answer)
       THEN /\ lastMemes' = [kind |-> "declined", id |-> memes[k]]
            /\ UNCHANGED deleteCalls
       ELSE /\ Len(deleteCalls) < MaxMemeCalls
            /\ deleteCalls' = Append(deleteCalls, [id |-> memes[k], memes |-> memes])
            /\ lastMemes' = [kind |-> "confirmed", id |-> memes[k]]
    /\ UNCHANGED <<serverMemes, memes, memesLoading, memeListCalls, duplicateCalls,
                   deleted>>
    /\ MemesOnly

\* memeAPI.delete resolves: toast.success, setMemes(memes.filter(...))
deleteSucceeded(i) ==
    /\ i \in 1..Len(deleteCalls)
    /\ deleteCalls[i].id \in serverMemes
    /\ serverMemes' = serverMemes \ {deleteCalls[i].id}
    /\ memes' = Without(deleteCalls[i].memes, deleteCalls[i].id)
    /\ deleted' = deleted \cup {deleteCalls[i].id}
    /\ deleteCalls' = Remove(deleteCalls, i)
    /\ lastMemes' = [kind |-> "deleted", id |-> deleteCalls[i].id]
    /\ UNCHANGED <<memesLoading, memeListCalls, duplicateCalls>>
    /\ MemesOnly

\* memeAPI.delete rejects: toast.error('Failed to delete meme')
deleteFailed(i) ==
    /\ i \in 1..Len(deleteCalls)
    /\ deleteCalls' = Remove(deleteCalls, i)
    /\ lastMemes' = [kind |-> "deleteFailed", id |-> deleteCalls[i].id]
    /\ UNCHANGED <<serverMemes, memes, memesLoading, memeListCalls, duplicateCalls,
                   deleted>>
    /\ MemesOnly

\* handleDuplicate(memeId) of the k-th card, up to its await
handleDuplicate(k) ==
    /\ ~memesLoading
    /\ k \in 1..Len(memes)
    /\ Len(duplicateCalls) < MaxMemeCalls
    /\ duplicateCalls' = Append(duplicateCalls, memes[k])
    /\ lastMemes' = [kind |-> "duplicate", id |-> memes[k]]
    /\ UNCHANGED <<serverMemes, memes, memesLoading, memeListCalls, deleteCalls,
                   deleted>>
    /\ MemesOnly

\* memeAPI.duplicate resolves with the copy id: toast.success, loadMemes() up
\* to its await
duplicateSucceeded(i, id) ==
    /\ i \in 1..Len(duplicateCalls)
    /\ duplicateCalls[i] \in serverMemes
    /\ id \in Members(AllMemes) \ (serverMemes \cup deleted)
    /\ Len(memeListCalls) < MaxMemeCalls
    /\ serverMemes' = serverMemes \cup {id}
    /\ memesLoading' = TRUE
    /\ memeListCalls' = Append(memeListCalls, serverMemes')
    /\ duplicateCalls' = Remove(duplicateCalls, i)
    /\ lastMemes' = [kind |-> "duplicated", id |-> id]
    /\ UNCHANGED <<memes, deleteCalls, deleted>>
    /\ MemesOnly

\* memeAPI.duplicate rejects: toast.error('Failed to duplicate meme')
duplicateFailed(i) ==
    /\ i \in 1..Len(duplicateCalls)
    /\ duplicateCalls' = Remove(duplicateCalls, i)
    /\ lastMemes' = [kind |-> "duplicateFailed", id |-> duplicateCalls[i]]
    /\ UNCHANGED <<serverMemes, memes, memesLoading, memeListCalls, deleteCalls,
                   deleted>>
    /\ MemesOnly

\* the page mounted for a user with two memes on the server
InitMemes ==
    /\ NewEditor /\ RouteIdle /\ ApiIdle
    /\ saving = FALSE
    /\ serverMemes = {"m1", "m2"}
    /\ opening = NoOpening
    /\ intent = NoIntent
    /\ OthersIdle

NextMemes ==
    \/ \E i \in 1..MaxMemeCalls, data \in SUBSET Members(AllMemes) : memesLoaded(i, data)
    \/ \E i \in 1..MaxMemeCalls : memesLoadFailed(i)
    \/ \E k \in 1..Len(AllMemes), answer \in BOOLEAN : handleDelete(k, answer)
    \/ \E i \in 1..MaxMemeCalls : deleteSucceeded(i)
    \/ \E i \in 1..MaxMemeCalls : deleteFailed(i)
    \/ \E k \in 1..Len(AllMemes) : handleDuplicate(k)
    \/ \E i \in 1..MaxMemeCalls, id \in Members(AllMemes) : duplicateSucceeded(i, id)
    \/ \E i \in 1..MaxMemeCalls : duplicateFailed(i)

SpecMemes == InitMemes /\ [][NextMemes]_vars

(***************************************************************************)
(* Claims about My Memes                                                   *)
(***************************************************************************)
\* C19: a delete request is sent only by a confirmed delete; a declined
\* delete and a failed request leave the displayed list as it is; and every
\* meme whose delete request has succeeded is absent from the displayed list,
\* also after other deletes have completed.
C19_DeletedStaysAbsent ==
    [][ /\ Len(deleteCalls') > Len(deleteCalls) => lastMemes'.kind = "confirmed"
        /\ lastMemes'.kind = "declined" =>
              deleteCalls' = deleteCalls /\ memes' = memes
        /\ lastMemes'.kind = "deleteFailed" => memes' = memes
        /\ lastMemes'.kind = "deleted" =>
              \A m \in deleted' : m \notin Members(memes') ]_vars

(***************************************************************************)
(* pages/Editor.js: the Text Style controls                                *)
(***************************************************************************)
\* text objects on the canvas at one time
MaxTexts == 2
\* user actions on the text tools of one session
MaxStyleOps == 4

\* the font size slider: min={12} max={120}
FontSizeMin == 12
FontSizeMax == 120

StyleOnly ==
    UNCHANGED <<histVars, routeVars, apiVars, pageVars, sessionVars, gifVars,
                notifVars, listVars, layerVars>>

\* the options of the font family select
FontFamilies == {"Impact", "Arial", "Comic Sans MS", "Times New Roman"}

\* the slider positions the model tries: both ends and the initial size
FontSizes == {FontSizeMin, InitialFontSize, FontSizeMax}

\* the colours the model picks in the colour inputs
Colors == {"#ffffff", "#000000", "#ff0000"}

\* the properties handleAddText and handleUpdateText pass: the style state
\* of the render the handler belongs to
StyleProperties(size, fill, stroke, family) ==
    [fontSize |-> size, fill |-> fill, stroke |-> stroke, fontFamily |-> family]

\* MemeCanvasEditor.updateActiveText(properties): activeObject.set(properties)
\* when an i-text is selected
updateActiveText(objs, active, properties) ==
    IF active # 0 THEN [objs EXCEPT ![active] = properties] ELSE objs

\* Editor.handleUpdateText() in a render with the given style state
handleUpdateText(objs, active, size, fill, stroke, family) ==
    IF active # 0
    THEN updateActiveText(objs, active, StyleProperties(size, fill, stroke, family))
    ELSE objs

\* Editor.handleAddText: editor.addText('Edit Me', {...}) selects the new text
handleAddText ==
    /\ styleOps < MaxStyleOps
    /\ Len(texts) < MaxTexts
    /\ texts' = Append(texts, StyleProperties(fontSize, textColor, strokeColor, fontFamily))
    /\ activeText' = Len(texts')
    /\ styleOps' = styleOps + 1
    /\ lastChange' = NoChange
    /\ UNCHANGED <<fontSize, textColor, strokeColor, fontFamily>>
    /\ StyleOnly

\* selection:created / selection:updated: the user selects the k-th text
selectText(k) ==
    /\ styleOps < MaxStyleOps
    /\ k \in 1..Len(texts) /\ k # activeText
    /\ activeText' = k
    /\ styleOps' = styleOps + 1
    /\ lastChange' = NoChange
    /\ UNCHANGED <<fontSize, textColor, strokeColor, fontFamily, texts>>
    /\ StyleOnly

\* selection:cleared
clearSelection ==
    /\ styleOps < MaxStyleOps
    /\ activeText # 0
    /\ activeText' = 0
    /\ styleOps' = styleOps + 1
    /\ lastChange' = NoChange
    /\ UNCHANGED <<fontSize, textColor, strokeColor, fontFamily, texts>>
    /\ StyleOnly

\* a control of the Text Style panel (rendered while an i-text is selected)
\* changes: the setter is called, then handleUpdateText() of the same render
Changed(prop, value) ==
    /\ styleOps < MaxStyleOps
    /\ activeText # 0
    /\ texts' = handleUpdateText(texts, activeText, fontSize, textColor, strokeColor,
                                 fontFamily)
    /\ styleOps' = styleOps + 1
    /\ lastChange' = [prop |-> prop, value |-> value]
    /\ UNCHANGED activeText
    /\ StyleOnly

\* onChange of the font family select
changeFontFamily(value) ==
    /\ value # fontFamily
    /\ fontFamily' = value
    /\ Changed("fontFamily", value)
    /\ UNCHANGED <<fontSize, textColor, strokeColor>>

\* onValueChange of the font size slider
changeFontSize(val) ==
    /\ val # fontSize
    /\ fontSize' = val
    /\ Changed("fontSize", val)
    /\ UNCHANGED <<textColor, strokeColor, fontFamily>>

\* onChange of the text colour input
changeTextColor(value) ==
    /\ value # textColor
    /\ textColor' = value
    /\ Changed("textColor", value)
    /\ UNCHANGED <<fontSize, strokeColor, fontFamily>>

\* onChange of the stroke colour input
changeStrokeColor(value) ==
    /\ value # strokeColor
    /\ strokeColor' = value
    /\ Changed("strokeColor", value)
    /\ UNCHANGED <<fontSize, textColor, fontFamily>>

InitStyle == NewEditor /\ RouteIdle /\ ApiIdle /\ PageIdle /\ OthersIdle

NextStyle ==
    \/ handleAddText
    \/ \E k \in 1..MaxTexts : selectText(k)
    \/ clearSelection
    \/ \E value \in FontFamilies : changeFontFamily(value)
    \/ \E val \in FontSizes : changeFontSize(val)
    \/ \E value \in Colors : changeTextColor(value)
    \/ \E value \in Colors : changeStrokeColor(value)

SpecStyle == InitStyle /\ [][NextStyle]_vars

(***************************************************************************)
(* Claims about the text tools                                             *)
(***************************************************************************)
\* the property of a text object that a control of the panel sets
Property(obj, prop) ==
    CASE prop = "fontFamily" -> obj.fontFamily
      [] prop = "fontSize" -> obj.fontSize
      [] prop = "textColor" -> obj.fill
      [] prop = "strokeColor" -> obj.stroke

\* C20: right after the change handler of a Text Style control has run, the
\* selected text object's property equals the value just chosen.
C20_ChosenStyleApplied ==
    lastChange.prop # "none" =>
        Property(texts[activeText], lastChange.prop) = lastChange.value

(***************************************************************************)
(* Editor page: the Layers sidebar                                         *)
(***************************************************************************)
\* objects on the canvas at one time
MaxLayers == 3
\* user operations on the editor page
MaxLayerOps == 4

LayersOnly ==
    UNCHANGED <<histVars, routeVars, apiVars, pageVars, sessionVars, gifVars,
                notifVars, listVars, styleVars>>

\* the canvas_data of the memes the model opens: an empty canvas, one text,
\* an image under a text
SavedCanvases ==
    {toJSON(<<>>), toJSON(<<"i-text">>), toJSON(<<"image", "i-text">>)}

\* a fabric object: its identity and its type
NewObject(id, type) == [id |-> id, type |-> type]

\* what canvas.toJSON() keeps of the objects: their properties, not their identity
toObjects(objs) == [i \in 1..Len(objs) |-> objs[i].type]

\* the objects canvas.loadFromJSON constructs from json, identities from + 1 on
enlivenObjects(json, from) ==
    [j \in 1..Len(json.objects) |-> NewObject(from + j, json.objects[j])]

\* updateLayers: setCanvasObjects([...editor.canvas.getObjects()])
updateLayers(objs) == [i \in 1..Len(objs) |-> objs[i]]

\* position of the object with identity id in objs, 0 when it is not there
IndexOf(objs, id) ==
    IF \E i \in 1..Len(objs) : objs[i].id = id
    THEN CHOOSE i \in 1..Len(objs) : objs[i].id = id
    ELSE 0

\* objs without its i-th element
RemoveAt(objs, i) ==
    [j \in 1..(Len(objs) - 1) |-> IF j < i THEN objs[j] ELSE objs[j + 1]]

\* canvas.bringToFront(activeObject): the object is taken out of _objects and
\* pushed at the end
bringToFront(objs, active) ==
    LET i == IndexOf(objs, active)
    IN  IF i = 0 THEN objs ELSE Append(RemoveAt(objs, i), objs[i])

\* canvas.sendToBack(activeObject): the object is taken out of _objects and
\* unshifted at the start
sendToBack(objs, active) ==
    LET i == IndexOf(objs, active)
    IN  IF i = 0 THEN objs ELSE <<objs[i]>> \o RemoveAt(objs, i)

\* the history fields of the page's editor
LayerEditor == [history |-> layerHistory, historyStep |-> layerStep]

\* one object:added / object:modified / object:removed event on the canvas as
\* the step leaves it: the editor's listener saves the state, the page's
\* listener refreshes canvasObjects
Fired ==
    LET ed == saveState(LayerEditor, toJSON(toObjects(layers')))
    IN  /\ layerHistory' = ed.history
        /\ layerStep' = ed.historyStep
        /\ canvasObjects' = updateLayers(layers')

\* canvas.loadFromJSON(json) with the history fields at ed: the canvas is
\* cleared and the objects of json are added, every removal and addition
\* fires its event; with no object before and none after no event fires
Loaded(ed, json) ==
    LET res == loadFromJSON(ed, toObjects(layers), json)
    IN  /\ layers' = enlivenObjects(json, created)
        /\ created' = created + Len(json.objects)
        /\ layerActive' = 0
        /\ layerHistory' = res.history
        /\ layerStep' = res.historyStep
        /\ canvasObjects' = IF Len(loadEvents(toObjects(layers), json)) = 0
                            THEN canvasObjects
                            ELSE updateLayers(layers')

\* a user operation named op is spent
Spent(op) ==
    /\ layerOps < MaxLayerOps
    /\ layerOps' = layerOps + 1
    /\ lastLayerOp' = op

\* Add Text button: handleAddText -> editor.addText: canvas.add, setActiveObject
onAddText ==
    /\ Spent("addText")
    /\ Len(layers) < MaxLayers
    /\ layers' = Append(layers, NewObject(created + 1, "i-text"))
    /\ created' = created + 1
    /\ layerActive' = created + 1
    /\ Fired
    /\ UNCHANGED <<uploading, pendingMeme>>
    /\ LayersOnly

\* handleImageUpload up to its first await: uploadAPI.image(file) is sent
handleImageUpload ==
    /\ Spent("upload")
    /\ uploading = 0
    /\ uploading' = uploading + 1
    /\ UNCHANGED <<layers, layerActive, canvasObjects, layerHistory, layerStep,
                   created, pendingMeme>>
    /\ LayersOnly

\* the upload succeeded and fabric loaded the image: editor.addImage's
\* callback runs canvas.add(img), setActiveObject(img)
imageAdded ==
    /\ uploading > 0
    /\ Len(layers) < MaxLayers
    /\ uploading' = uploading - 1
    /\ layers' = Append(layers, NewObject(created + 1, "image"))
    /\ created' = created + 1
    /\ layerActive' = created + 1
    /\ Fired
    /\ lastLayerOp' = "addImage"
    /\ UNCHANGED <<pendingMeme, layerOps>>
    /\ LayersOnly

\* the upload or the image load failed: handleImageUpload's catch, a toast
uploadFailed ==
    /\ uploading > 0
    /\ uploading' = uploading - 1
    /\ lastLayerOp' = "uploadFailed"
    /\ UNCHANGED <<layers, layerActive, canvasObjects, layerHistory, layerStep,
                   created, pendingMeme, layerOps>>
    /\ LayersOnly

\* the user drags or resizes the selected object: fabric fires object:modified
layerModified ==
    /\ Spent("modified")
    /\ layerActive # 0
    /\ layers' = layers
    /\ Fired
    /\ UNCHANGED <<layerActive, created, uploading, pendingMeme>>
    /\ LayersOnly

\* Delete button: editor.deleteActiveLayer(): canvas.remove(activeObject)
\* fires object:removed and drops the selection
onDeleteActiveLayer ==
    /\ Spent("deleteActiveLayer")
    /\ layerActive # 0
    /\ layers' = RemoveAt(layers, IndexOf(layers, layerActive))
    /\ layerActive' = 0
    /\ Fired
    /\ UNCHANGED <<created, uploading, pendingMeme>>
    /\ LayersOnly

\* Bring to Front button: editor.bringToFront(): canvas.bringToFront and
\* renderAll; fabric fires none of object:added / removed / modified
onBringToFront ==
    /\ Spent("bringToFront")
    /\ layerActive # 0
    /\ layers' = bringToFront(layers, layerActive)
    /\ UNCHANGED <<layerActive, canvasObjects, layerHistory, layerStep, created,
                   uploading, pendingMeme>>
    /\ LayersOnly

\* Send to Back button: editor.sendToBack(): canvas.sendToBack and renderAll;
\* fabric fires none of object:added / removed / modified
onSendToBack ==
    /\ Spent("sendToBack")
    /\ layerActive # 0
    /\ layers' = sendToBack(layers, layerActive)
    /\ UNCHANGED <<layerActive, canvasObjects, layerHistory, layerStep, created,
                   uploading, pendingMeme>>
    /\ LayersOnly

\* Undo button: editor.undo()
onUndo ==
    /\ Spent("undo")
    /\ layerStep > 0
    /\ Loaded([history |-> layerHistory, historyStep |-> layerStep - 1],
              layerHistory[(layerStep - 1) + 1])
    /\ UNCHANGED <<uploading, pendingMeme>>
    /\ LayersOnly

\* Redo button: editor.redo()
onRedo ==
    /\ Spent("redo")
    /\ layerStep < Len(layerHistory) - 1
    /\ Loaded([history |-> layerHistory, historyStep |-> layerStep + 1],
              layerHistory[(layerStep + 1) + 1])
    /\ UNCHANGED <<uploading, pendingMeme>>
    /\ LayersOnly

\* loadMeme after memeAPI.get answered: canvasEditor.loadFromJSON(meme.canvas_data)
loadMeme ==
    /\ pendingMeme # NoMeme
    /\ Loaded(LayerEditor, pendingMeme)
    /\ pendingMeme' = NoMeme
    /\ lastLayerOp' = "loadMeme"
    /\ UNCHANGED <<uploading, layerOps>>
    /\ LayersOnly

\* loadMeme's catch: memeAPI.get failed, a toast
loadMemeFailed ==
    /\ pendingMeme # NoMeme
    /\ pendingMeme' = NoMeme
    /\ lastLayerOp' = "loadMemeFailed"
    /\ UNCHANGED <<layers, layerActive, canvasObjects, layerHistory, layerStep,
                   created, uploading, layerOps>>
    /\ LayersOnly

\* selectLayer(obj) for the k-th row of the sidebar: canvas.setActiveObject(obj)
selectLayer(k) ==
    /\ Spent("selectLayer")
    /\ k \in 1..Len(canvasObjects)
    /\ canvasObjects[k].id # layerActive
    /\ layerActive' = canvasObjects[k].id
    /\ UNCHANGED <<layers, canvasObjects, layerHistory, layerStep, created,
                   uploading, pendingMeme>>
    /\ LayersOnly

InitLayers ==
    /\ NewEditor /\ RouteIdle /\ ApiIdle /\ PageIdle
    /\ SessionIdle
    /\ GifCreatorRendered
    /\ NotificationsPanelRendered
    /\ MyMemesMounted
    /\ TextControlsInitial
    /\ \E canvas_data \in {NoMeme} \cup SavedCanvases : EditorMounted(canvas_data)

NextLayers ==
    \/ onAddText
    \/ handleImageUpload
    \/ imageAdded
    \/ uploadFailed
    \/ layerModified
    \/ onDeleteActiveLayer
    \/ onBringToFront
    \/ onSendToBack
    \/ onUndo
    \/ onRedo
    \/ loadMeme
    \/ loadMemeFailed
    \/ \E k \in 1..MaxLayers : selectLayer(k)

SpecLayers == InitLayers /\ [][NextLayers]_vars

(***************************************************************************)
(* Claims about the Layers sidebar                                         *)
(***************************************************************************)
\* the editor operations the layer list is said to follow
EditorOperations ==
    {"addText", "addImage", "deleteActiveLayer", "bringToFront", "sendToBack",
     "undo", "redo", "loadMeme"}

\* C21: after any editor operation (addText, addImage, deleteActiveLayer,
\* bringToFront, sendToBack, undo, redo, loading a meme) the sidebar's
\* canvasObjects holds exactly the objects on the canvas, in the canvas's
\* stacking order.
C21_LayerListIsCanvas ==
    lastLayerOp \in EditorOperations => canvasObjects = layers

====
